---- MODULE Spec2Model ----
(***************************************************************************)
(* Model of the grading pipeline of the parallel exam system:              *)
(*   main.evaluate_exam  ->  Evaluator.evaluate_exam                       *)
(*                       ->  MPICoordinator.evaluate_responses_parallel    *)
(*                       ->  Evaluator._store_evaluation_results           *)
(* Strings that the code converts (answers, uuid text) are modelled as     *)
(* sequences so that strip/lower/str/uuid.UUID are real conversions.       *)
(***************************************************************************)
EXTENDS Integers, Sequences, FiniteSets, TLC

\* ------------------------------------------------------------------ bounds
MaxApplicants == 2
MaxRuns == 2
MaxResponses == 2
MaxBuildResponses == 3
MaxQuestions == 2

\* ------------------------------------------------------- program constants
MinProcesses == 1
MaxProcesses == 16

None == "None"

\* Optional[List[str]]: None or a list
NoOptions == [is_none |-> TRUE, items |-> <<>>]
Options(items) == [is_none |-> FALSE, items |-> items]

\* ------------------------------------------------------------ text helpers
WhiteSpace == {" ", "\t", "\n"}

LowerChar(c) ==
    CASE c = "A" -> "a"
      [] c = "B" -> "b"
      [] c = "O" -> "o"
      [] c = "K" -> "k"
      [] OTHER -> c

Lower(s) == [i \in 1..Len(s) |-> LowerChar(s[i])]

RECURSIVE LStrip(_)
LStrip(s) ==
    IF s = <<>> THEN <<>>
    ELSE IF Head(s) \in WhiteSpace THEN LStrip(Tail(s)) ELSE s

RECURSIVE RStrip(_)
RStrip(s) ==
    IF s = <<>> THEN <<>>
    ELSE IF s[Len(s)] \in WhiteSpace THEN RStrip(SubSeq(s, 1, Len(s) - 1)) ELSE s

Strip(s) == RStrip(LStrip(s))

\* str(uuid) and uuid.UUID(text): a uuid is a number, its text a tagged pair;
\* any other text does not parse.
UuidStr(u) == <<"uuid", u>>
IsUuidText(t) == Len(t) = 2 /\ t[1] = "uuid"
ParseUuid(t) == t[2]
BadText == <<"text", 0>>

\* ---------------------------------------------------------- GradingEngine
EssayMinLen == 10

EvaluateAnswerNoLower(applicant_answer, correct_answer, question_type) ==
    LET a == Strip(applicant_answer)
        c == Strip(correct_answer)
    IN  IF question_type \in {"multiple_choice", "true_false", "short_answer"}
        THEN a = c
        ELSE Len(a) > EssayMinLen

EvaluateAnswerAtLeast(applicant_answer, correct_answer, question_type) ==
    LET a == Lower(Strip(applicant_answer))
        c == Lower(Strip(correct_answer))
    IN  IF question_type \in {"multiple_choice", "true_false", "short_answer"}
        THEN a = c
        ELSE Len(a) >= EssayMinLen

EvaluateAnswer(applicant_answer, correct_answer, question_type) ==
    LET a == Lower(Strip(applicant_answer))
        c == Lower(Strip(correct_answer))
    IN  IF question_type \in {"multiple_choice", "true_false", "short_answer"}
        THEN a = c
        ELSE Len(a) > EssayMinLen

\* ------------------------------------------------------------ TaskBuilder
\* question_dict = {str(q.id): q for q in questions}: the last entry of an id wins
QuestionHits(questions, qid) ==
    {i \in 1..Len(questions) : UuidStr(questions[i].id) = UuidStr(qid)}

HasQuestion(questions, qid) == QuestionHits(questions, qid) # {}

QuestionDictGet(questions, qid) ==
    LET hits == QuestionHits(questions, qid)
    IN  questions[CHOOSE i \in hits : \A j \in hits : j <= i]

\* question.options or []
OptionsOrEmpty(options) == IF options.is_none \/ options.items = <<>> THEN <<>> ELSE options.items

MakeTask(response, question) ==
    [response_id      |-> UuidStr(response.id),
     session_id       |-> UuidStr(response.session_id),
     question_id      |-> UuidStr(response.question_id),
     applicant_answer |-> response.answer,
     correct_answer   |-> question.correct_answer,
     question_type    |-> question.question_type,
     points           |-> question.points,
     options          |-> OptionsOrEmpty(question.options)]

RECURSIVE EvaluationTasksKeepOrphans(_, _)
EvaluationTasksKeepOrphans(responses, questions) ==
    IF responses = <<>> THEN <<>>
    ELSE LET r == Head(responses)
             rest == EvaluationTasksKeepOrphans(Tail(responses), questions)
         IN  IF HasQuestion(questions, r.question_id)
             THEN <<MakeTask(r, QuestionDictGet(questions, r.question_id))>> \o rest
             ELSE IF questions = <<>> THEN rest
             ELSE <<MakeTask(r, questions[1])>> \o rest

RECURSIVE EvaluationTasks(_, _)
EvaluationTasks(responses, questions) ==
    IF responses = <<>> THEN <<>>
    ELSE LET r == Head(responses)
             rest == EvaluationTasks(Tail(responses), questions)
         IN  IF HasQuestion(questions, r.question_id)
             THEN <<MakeTask(r, QuestionDictGet(questions, r.question_id))>> \o rest
             ELSE rest

PrepareInputData(responses, questions) ==
    [job_metadata |-> [total_tasks     |-> Len(EvaluationTasks(responses, questions)),
                       total_responses |-> Len(responses),
                       total_questions |-> Len(questions)],
     evaluation_tasks |-> EvaluationTasks(responses, questions)]

SimulateResultFullPoints(task) ==
    LET is_correct == EvaluateAnswer(task.applicant_answer, task.correct_answer,
                                     task.question_type)
    IN  [response_id   |-> task.response_id,
         session_id    |-> task.session_id,
         question_id   |-> task.question_id,
         is_correct    |-> is_correct,
         points_earned |-> task.points]

SimulateResultQuestionId(task) ==
    LET is_correct == EvaluateAnswer(task.applicant_answer, task.correct_answer,
                                     task.question_type)
    IN  [response_id   |-> task.question_id,
         session_id    |-> task.session_id,
         question_id   |-> task.question_id,
         is_correct    |-> is_correct,
         points_earned |-> IF is_correct THEN task.points ELSE 0]

\* In-process simulator: one result per task, in task order
SimulateResult(task) ==
    LET is_correct == EvaluateAnswer(task.applicant_answer, task.correct_answer,
                                     task.question_type)
    IN  [response_id   |-> task.response_id,
         session_id    |-> task.session_id,
         question_id   |-> task.question_id,
         is_correct    |-> is_correct,
         points_earned |-> IF is_correct THEN task.points ELSE 0]

SimulateResults(tasks) == [i \in 1..Len(tasks) |-> SimulateResult(tasks[i])]

\* ------------------------------------------------------------- the exam data
\* One exam with two questions (create_exam stores the sums on the exam row);
\* question 3 exists in the questions table but belongs to no exam.
AnswerA == <<"A">>
AnswerOk == <<"o", "k">>
SubmittedA == <<" ", "a">>
SubmittedOk == <<"O", "K", " ">>

Question1 == [id |-> 1, question_type |-> "multiple_choice", correct_answer |-> AnswerA,
              points |-> 2, options |-> Options(<<"A", "B">>)]
Question2 == [id |-> 2, question_type |-> "short_answer", correct_answer |-> AnswerOk,
              points |-> 3, options |-> NoOptions]
Question3 == [id |-> 3, question_type |-> "essay", correct_answer |-> <<>>,
              points |-> 1, options |-> Options(<<>>)]

ExamQuestions == <<Question1, Question2>>
SessionIds == {1, 2}
ProcChoices == {0, 4, 17}

\* the submissions the pipeline is run on: a right and a wrong answer to an
\* exam question, and an answer to a question that is not of the exam
Submission(s, q, a) == [session_id |-> s, question_id |-> q, answer |-> a]
SubmissionChoices ==
    {Submission(1, 1, SubmittedA), Submission(1, 2, SubmittedA),
     Submission(2, 2, SubmittedOk), Submission(2, 3, SubmittedOk),
     Submission(2, 1, SubmittedA)}

RECURSIVE SumPoints(_)
SumPoints(qs) == IF qs = <<>> THEN 0 ELSE Head(qs).points + SumPoints(Tail(qs))

Exam == [total_questions |-> Len(ExamQuestions), total_points |-> SumPoints(ExamQuestions)]

\* ------------------------------------------------------------ value shapes
\* ------------------------------------------------ the input file as JSON
\* json.dump writes a str between quotes with the quote, the backslash and
\* the control characters escaped; json.load undoes the escapes
RECURSIVE JsonEscape(_)
JsonEscape(s) ==
    IF s = <<>> THEN <<>>
    ELSE (CASE Head(s) = "\"" -> <<"\\", "\"">>
            [] Head(s) = "\\" -> <<"\\", "\\">>
            [] Head(s) = "\n" -> <<"\\", "n">>
            [] Head(s) = "\t" -> <<"\\", "t">>
            [] OTHER -> <<Head(s)>>) \o JsonEscape(Tail(s))

JsonUnescapeKeep(t) == t

RECURSIVE JsonUnescape(_)
JsonUnescape(t) ==
    IF t = <<>> THEN <<>>
    ELSE IF Head(t) = "\\" /\ Len(t) >= 2
    THEN <<CASE t[2] = "n" -> "\n"
             [] t[2] = "t" -> "\t"
             [] OTHER -> t[2]>> \o JsonUnescape(Tail(Tail(t)))
    ELSE <<Head(t)>> \o JsonUnescape(Tail(t))

\* a str of the task as a JSON string, an int as a JSON number; the text of
\* a uuid and the value of a QuestionType hold no character to escape
JsonString(s) == [json |-> "string", text |-> JsonEscape(s)]
JsonPlain(s) == [json |-> "string", text |-> s]
JsonNumber(n) == [json |-> "number", value |-> n]
JsonArray(items) == [json |-> "array", items |-> items]

JsonDumpTask(task) ==
    [response_id      |-> JsonPlain(task.response_id),
     session_id       |-> JsonPlain(task.session_id),
     question_id      |-> JsonPlain(task.question_id),
     applicant_answer |-> JsonString(task.applicant_answer),
     correct_answer   |-> JsonString(task.correct_answer),
     question_type    |-> JsonPlain(task.question_type),
     points           |-> JsonNumber(task.points),
     options          |-> JsonArray(task.options)]

JsonLoadTask(object) ==
    [response_id      |-> object.response_id.text,
     session_id       |-> object.session_id.text,
     question_id      |-> object.question_id.text,
     applicant_answer |-> JsonUnescape(object.applicant_answer.text),
     correct_answer   |-> JsonUnescape(object.correct_answer.text),
     question_type    |-> object.question_type.text,
     points           |-> object.points.value,
     options          |-> object.options.items]

\* json.dump(input_data, f, indent=2, default=str), the task list of it
JsonDumpTasks(tasks) == [i \in 1..Len(tasks) |-> JsonDumpTask(tasks[i])]

\* json.load(f) and input_data.get("evaluation_tasks", [])
JsonLoadTasks(objects) == [i \in 1..Len(objects) |-> JsonLoadTask(objects[i])]

NoFile == [state |-> "absent", evaluation_tasks |-> <<>>]
PartialFile == [state |-> "partial", evaluation_tasks |-> <<>>]
InputFile(data) ==
    [state |-> "written", evaluation_tasks |-> JsonDumpTasks(data.evaluation_tasks)]

\* content of the output path: kind is "absent", "malformed" (not JSON),
\* "null" (the JSON value null) or "object" (a JSON object)
NoOutput == [kind |-> "absent", evaluation_results |-> <<>>]
OutputObject(results) == [kind |-> "object", evaluation_results |-> results]
MalformedOutput == [kind |-> "malformed", evaluation_results |-> <<>>]
NullOutput == [kind |-> "null", evaluation_results |-> <<>>]

NoData == [kind |-> "None", evaluation_results |-> <<>>]   \* output_data = None
NoException == [type |-> "None", text |-> "None"]
Exception(type, text) == [type |-> type, text |-> text]
NoConfig == [built |-> FALSE, num_processes |-> 0, input_file |-> "", output_file |-> ""]
NoResult == [status |-> "None", output_data |-> NoData, error_message |-> "None",
             config |-> NoConfig]
NoResponse == [code |-> "None", body |-> NoResult, detail |-> "None"]

\* ------------------------------------------------------------------- state
VARIABLES
    db_sessions,     \* exam_sessions.status, by session id
    db_responses,    \* responses table, in insertion order (committed rows)
    db_evaluations,  \* evaluations table, in insertion order (committed rows)
    pc,              \* position of the one evaluation request
    entry,           \* "http" (main.evaluate_exam) or "service" (Evaluator.evaluate_exam)
    num_processes,   \* the requested worker count
    input_file,      \* the input path: NoFile, PartialFile or InputFile(data)
    output_file,     \* the output path: NoOutput or what was written there
    config,          \* the MPIJobConfig of the job, NoConfig before it is built
    strategy,        \* "None", "python_simulator", "native" or "inprocess"
    proc,            \* the worker process: "none", "running", "exit0", "exit1", "killed"
    success,         \* what _execute_mpi_job returned (FALSE before it returns)
    exc,             \* the exception caught by evaluate_responses_parallel
    mpi_result,      \* the MPIJobResult the coordinator returned
    raised,          \* the exception that left the coordinator / evaluate_exam
    http_response,   \* what the caller of the entry point received
    hist,            \* observations of the run (what happened; never read by the code)
    b_pc,            \* TaskBuilder on drawn inputs: "unused", "ready", "built", ...
    b_responses,     \* the responses given to _prepare_input_data
    b_questions,     \* the questions given to _prepare_input_data
    b_data,          \* what _prepare_input_data returned
    b_file,          \* the input file written from b_data
    b_read,          \* the tasks the simulation read back from b_file
    b_results,       \* the results the simulation produced from b_read
    a_pc,            \* aggregation on drawn inputs: "unused", "ready" or "stored"
    a_results,       \* the evaluation_results given to _store_evaluation_results
    a_exam,          \* the exam row of the sessions of these results
    a_rows,          \* the evaluation rows the aggregation added
    g_pc,            \* grading on drawn inputs: "unused", "ready" or "graded"
    g_applicant,     \* the applicant answer: its words and how they were typed
    g_correct,       \* the correct answer: its words and how they were typed
    g_type,          \* the question type
    g_verdict,       \* what _evaluate_answer returned for the answers as typed
    g_plain_verdict, \* what it returned for the bare lower-case words
    j_jobs,          \* concurrent calls of evaluate_responses_parallel, by caller
    j_fs,            \* the files of temp_dir, by path
    j_used,          \* the job ids uuid.uuid4() has given out
    j_call,          \* the last call of get_job_status or cancel_job and its return
    cmd_pc,          \* command construction on drawn inputs: "unused", "ready", ...
    cmd_env,         \* the configured command, the platform, the binary, the config
    cmd_argv,        \* the argument vector given to create_subprocess_exec
    s_status,        \* exams.status of the one exam ("unused" outside its specifications)
    s_enrolled,      \* exam_enrollments: the applicants enrolled for the exam
    s_sessions,      \* exam_sessions: the committed rows, in insertion order
    s_calls          \* the start_sessions_for_all_enrolled calls, by caller

vars == <<db_sessions, db_responses, db_evaluations, pc, entry, num_processes,
          input_file, output_file, config, strategy, proc, success, exc,
          mpi_result, raised, http_response, hist,
          b_pc, b_responses, b_questions, b_data, b_file, b_read, b_results,
          a_pc, a_results, a_exam, a_rows,
          g_pc, g_applicant, g_correct, g_type, g_verdict, g_plain_verdict,
          j_jobs, j_fs, j_used, j_call,
          cmd_pc, cmd_env, cmd_argv,
          s_status, s_enrolled, s_sessions, s_calls>>

build_vars == <<b_pc, b_responses, b_questions, b_data, b_file, b_read, b_results>>
agg_vars == <<a_pc, a_results, a_exam, a_rows>>
grade_vars == <<g_pc, g_applicant, g_correct, g_type, g_verdict, g_plain_verdict>>
jobs_vars == <<j_jobs, j_fs, j_used, j_call>>
cmd_vars == <<cmd_pc, cmd_env, cmd_argv>>
ses_vars == <<s_status, s_enrolled, s_sessions, s_calls>>
side_vars == <<build_vars, agg_vars, grade_vars, jobs_vars, cmd_vars, ses_vars>>
main_vars == <<db_sessions, db_responses, db_evaluations, pc, entry, num_processes,
               input_file, output_file, config, strategy, proc, success, exc,
               mpi_result, raised, http_response, hist>>

job_vars == <<input_file, output_file, config, strategy, proc, success, exc,
              mpi_result, raised>>

HistInit ==
    [store_called  |-> FALSE,        \* _store_evaluation_results was entered
     unlink_failed |-> FALSE,        \* a deletion in _cleanup_temp_files failed
     worker_wrote  |-> FALSE,        \* the worker process wrote an output file
     timed_out     |-> FALSE,        \* the wait for the worker timed out
     output_seen   |-> "None",       \* what the coordinator found at the output path
     dispatch_exc  |-> NoException,  \* exception raised before or during the spawn
     store_exc     |-> NoException,  \* exception raised by _store_evaluation_results
     spawns        |-> 0,            \* worker processes started
     spawn_failures |-> 0,           \* worker processes that could not be started
     sims          |-> 0,            \* runs of the in-process simulation
     sim_outcome   |-> "None",       \* how the in-process simulation ended
     use_python_simulator |-> FALSE, \* self.use_python_simulator of the coordinator
     processor_exists |-> "unchecked", \* what processor_path.exists() gave
     tasks         |-> <<>>,         \* the evaluation tasks written to the input file
     reruns        |-> 0,            \* evaluate_exam calls after the first one
     completed_runs |-> 0,           \* evaluate_exam calls whose store committed
     graded_once   |-> <<>>,         \* the responses table after the first of these
     stages        |-> <<>>]         \* the stages of the job, in the order they began

MainInit ==
    /\ db_sessions = [s \in SessionIds |-> "in_progress"]
    /\ db_responses = <<>>
    /\ db_evaluations = <<>>
    /\ pc = "idle"
    /\ entry = "None"
    /\ num_processes = 0
    /\ input_file = NoFile
    /\ output_file = NoOutput
    /\ config = NoConfig
    /\ strategy = "None"
    /\ proc = "none"
    /\ success = FALSE
    /\ exc = NoException
    /\ mpi_result = NoResult
    /\ raised = NoException
    /\ http_response = NoResponse
    /\ hist = HistInit

NoInputData == [job_metadata |-> [total_tasks |-> 0, total_responses |-> 0,
                                  total_questions |-> 0],
                evaluation_tasks |-> <<>>]

BuildUnused ==
    /\ b_pc = "unused"
    /\ b_responses = <<>>
    /\ b_questions = <<>>
    /\ b_data = NoInputData
    /\ b_file = NoFile
    /\ b_read = <<>>
    /\ b_results = <<>>

AggUnused ==
    /\ a_pc = "unused"
    /\ a_results = <<>>
    /\ a_exam = Exam
    /\ a_rows = <<>>

\* an answer as it was typed: the words, their letter case, and the
\* whitespace before and after them
Typed(core, caps, left, right) == [core |-> core, caps |-> caps, left |-> left, right |-> right]

GradeUnused ==
    /\ g_pc = "unused"
    /\ g_applicant = Typed(<<>>, "lower", <<>>, <<>>)
    /\ g_correct = Typed(<<>>, "lower", <<>>, <<>>)
    /\ g_type = "multiple_choice"
    /\ g_verdict = FALSE
    /\ g_plain_verdict = FALSE

\* temp_dir / f"input_{job_id}.json" and temp_dir / f"output_{job_id}.json"
InputPath(job_id) == <<"input", job_id>>
OutputPath(job_id) == <<"output", job_id>>

MaxJobs == 2
Callers == 1..MaxJobs
JobIds == 1..MaxJobs
Paths == {InputPath(id) : id \in JobIds} \cup {OutputPath(id) : id \in JobIds}

\* a file of temp_dir: who wrote it and whose tasks it is about (0: no file)
NoJobFile == [owner |-> 0, tasks_of |-> 0]
JobFile(owner, tasks_of) == [owner |-> owner, tasks_of |-> tasks_of]

NoJob == [pc |-> "idle", job_id |-> 0, wrote |-> FALSE, success |-> FALSE,
          status |-> "None", data_of |-> 0, foreign |-> {}]
NoCall == [op |-> "None", job_id |-> 0, status |-> None, cancelled |-> FALSE]

NoEnv == [command |-> <<>>, processor_exists |-> FALSE, platform |-> "None",
          config |-> NoConfig]

CommandUnused ==
    /\ cmd_pc = "unused"
    /\ cmd_env = NoEnv
    /\ cmd_argv = <<>>

StartCallers == {1, 2}
NoStartCall == [pc |-> "idle", new_sessions |-> <<>>, returned |-> "None"]

SessionsUnused ==
    /\ s_status = "unused"
    /\ s_enrolled = {}
    /\ s_sessions = <<>>
    /\ s_calls = [c \in StartCallers |-> NoStartCall]

JobsInit ==
    /\ j_jobs = [c \in Callers |-> NoJob]
    /\ j_fs = [p \in Paths |-> NoJobFile]
    /\ j_used = {}
    /\ j_call = NoCall

Init ==
    /\ MainInit
    /\ BuildUnused
    /\ AggUnused
    /\ GradeUnused
    /\ JobsInit
    /\ CommandUnused
    /\ SessionsUnused

\* ------------------------------------------------- ExamSessionManager
\* submit_response: a fresh uuid, no check of the session or of the question
SubmitResponse(session_id, question_id, answer) ==
    /\ pc = "idle"
    /\ Len(db_responses) < MaxResponses
    /\ db_responses' = Append(db_responses,
          [id |-> Len(db_responses) + 1, session_id |-> session_id,
           question_id |-> question_id, answer |-> answer,
           graded |-> FALSE, is_correct |-> FALSE, points_earned |-> 0])
    /\ UNCHANGED <<side_vars, db_sessions, db_evaluations, pc, entry, num_processes,
                   job_vars, http_response, hist>>

EndExamSession(session_id) ==
    /\ pc = "idle"
    /\ db_sessions[session_id] # "completed"
    /\ db_sessions' = [db_sessions EXCEPT ![session_id] = "completed"]
    /\ UNCHANGED <<side_vars, db_responses, db_evaluations, pc, entry, num_processes,
                   job_vars, http_response, hist>>

\* ------------------------------------------------------- entry points
\* EvaluateExamRequest.parallel_processes: Field(ge=1, le=16), and the handler's
\* own range check
RequestValidNoCheck(n) == TRUE

RequestValid(n) == n >= MinProcesses /\ n <= MaxProcesses

\* MPIJobConfig.num_processes: Field(ge=1, le=16)
ConfigValid(n) == n >= MinProcesses /\ n <= MaxProcesses

\* POST /api/v1/evaluations/evaluate-exam
HttpEvaluateExam(n) ==
    /\ pc = "idle"
    /\ entry' = "http"
    /\ num_processes' = n
    /\ IF RequestValid(n)
       THEN /\ pc' = "evaluate"
            /\ UNCHANGED http_response
       ELSE /\ pc' = "done"
            /\ http_response' = [code |-> "422", body |-> NoResult,
                                 detail |-> "parallel_processes out of range"]
    /\ UNCHANGED <<side_vars, db_sessions, db_responses, db_evaluations, job_vars, hist>>

\* Evaluator.evaluate_exam called by other code than the endpoint
ServiceEvaluateExam(n) ==
    /\ pc = "idle"
    /\ entry' = "service"
    /\ num_processes' = n
    /\ pc' = "evaluate"
    /\ UNCHANGED <<side_vars, db_sessions, db_responses, db_evaluations, job_vars,
                   http_response, hist>>

\* --------------------------------------------- what the caller receives
\* main.evaluate_exam: except ValueError -> 400, except Exception -> 500
\* (pydantic's ValidationError is a ValueError); a direct caller of
\* Evaluator.evaluate_exam gets the result or the exception itself
IsValueError(type) == type \in {"ValueError", "ValidationError"}

Respond(via, e, result) ==
    IF via = "http"
    THEN IF e.type = "None"
         THEN [code |-> "200", body |-> result, detail |-> "None"]
         ELSE IF IsValueError(e.type)
         THEN [code |-> "400", body |-> NoResult, detail |-> e.text]
         ELSE [code |-> "500", body |-> NoResult, detail |-> e.text]
    ELSE IF e.type = "None"
         THEN [code |-> "returned", body |-> result, detail |-> "None"]
         ELSE [code |-> "raised", body |-> NoResult, detail |-> e.text]

\* ------------------------------------------------ Evaluator.evaluate_exam
CompletedSessions(sessions) == {s \in DOMAIN sessions : sessions[s] = "completed"}

NoCompletedSessionsNoCheck(sessions) == FALSE

\* if not sessions: raise ValueError(...)
NoCompletedSessions(sessions) == CompletedSessions(sessions) = {}

\* the responses of the completed sessions, as ApplicantResponse objects
SelectResponses(rows, sessions) ==
    SelectSeq(rows, LAMBDA r : r.session_id \in CompletedSessions(sessions))

\* lines 433-444: the completed sessions of the exam, or ValueError
EvaluateExamFetch ==
    /\ pc = "evaluate"
    /\ IF NoCompletedSessions(db_sessions)
       THEN LET e == Exception("ValueError", "No completed sessions found for this exam")
            IN  /\ raised' = e
                /\ http_response' = Respond(entry, e, NoResult)
                /\ pc' = "done"
       ELSE /\ pc' = "coord_write"
            /\ UNCHANGED <<raised, http_response>>
    /\ UNCHANGED <<side_vars, db_sessions, db_responses, db_evaluations, entry, num_processes,
                   input_file, output_file, config, strategy, proc, success, exc,
                   mpi_result, hist>>

\* ----------------------- MPICoordinator.evaluate_responses_parallel
\* the stages lines 50-60 begin: _prepare_input_data, then open() and json.dump
WriteStages(outcome) ==
    IF outcome = "open_fails" THEN <<"build_tasks">>
    ELSE <<"build_tasks", "write_input">>

\* lines 50-60: build the tasks and write the input file
CoordWriteInput(outcome) ==
    /\ pc = "coord_write"
    /\ LET responses == SelectResponses(db_responses, db_sessions)
           e == Exception("OSError", IF outcome = "open_fails"
                                     THEN "cannot open input file"
                                     ELSE "cannot write input file")
           data == PrepareInputData(responses, ExamQuestions)
       IN  CASE outcome = "ok" ->
                  /\ input_file' = InputFile(data)
                  /\ hist' = [hist EXCEPT !.tasks = data.evaluation_tasks,
                                          !.stages = @ \o WriteStages(outcome)]
                  /\ pc' = "coord_config"
                  /\ UNCHANGED exc
             [] outcome = "open_fails" ->
                  /\ exc' = e
                  /\ hist' = [hist EXCEPT !.dispatch_exc = e,
                                          !.stages = @ \o WriteStages(outcome)]
                  /\ pc' = "coord_except"
                  /\ UNCHANGED input_file
             [] outcome = "dump_fails" ->
                  /\ input_file' = PartialFile
                  /\ exc' = e
                  /\ hist' = [hist EXCEPT !.dispatch_exc = e,
                                          !.stages = @ \o WriteStages(outcome)]
                  /\ pc' = "coord_except"
    /\ UNCHANGED <<side_vars, db_sessions, db_responses, db_evaluations, entry, num_processes,
                   output_file, config, strategy, proc, success, mpi_result, raised,
                   http_response>>

\* lines 62-68: MPIJobConfig(num_processes=..., timeout_seconds=300)
CoordMakeConfig ==
    /\ pc = "coord_config"
    /\ IF ConfigValid(num_processes)
       THEN /\ config' = [built |-> TRUE, num_processes |-> num_processes,
                          input_file |-> "input_job", output_file |-> "output_job"]
            /\ pc' = "execute"
            /\ UNCHANGED <<exc, hist>>
       ELSE /\ exc' = Exception("ValidationError", "num_processes out of range")
            /\ hist' = [hist EXCEPT !.dispatch_exc =
                            Exception("ValidationError", "num_processes out of range")]
            /\ pc' = "coord_except"
            /\ UNCHANGED config
    /\ UNCHANGED <<side_vars, db_sessions, db_responses, db_evaluations, entry, num_processes,
                   input_file, output_file, strategy, proc, success, mpi_result,
                   raised, http_response>>

\* ------------------------------------- MPICoordinator._execute_mpi_job
\* "python" in the command -> the simulator command; else the native launcher
\* when the binary exists; else the in-process simulation
SelectStrategyBinaryFirst(use_python_simulator, processor_exists) ==
    IF processor_exists THEN "native"
    ELSE IF use_python_simulator THEN "python_simulator"
    ELSE "inprocess"

SelectStrategyNoFallback(use_python_simulator, processor_exists) ==
    IF use_python_simulator THEN "python_simulator" ELSE "native"

SelectStrategy(use_python_simulator, processor_exists) ==
    IF use_python_simulator THEN "python_simulator"
    ELSE IF processor_exists THEN "native"
    ELSE "inprocess"

\* lines 164-201: choose the command and start the process; any exception
\* (the launcher cannot be started) is caught by line 222 and gives False
ExecuteMpiJob(use_python_simulator, processor_exists, spawn_ok) ==
    /\ pc = "execute"
    /\ LET st == SelectStrategy(use_python_simulator, processor_exists)
           seen == [hist EXCEPT !.use_python_simulator = use_python_simulator,
                                !.processor_exists =
                                    IF use_python_simulator THEN "unchecked"
                                    ELSE IF processor_exists THEN "yes" ELSE "no",
                                !.stages = @ \o <<"run_worker">>]
       IN  /\ strategy' = st
           /\ IF st = "inprocess"
              THEN /\ pc' = "simulate"
                   /\ hist' = seen
                   /\ UNCHANGED <<proc, success>>
              ELSE IF spawn_ok
              THEN /\ proc' = "running"
                   /\ hist' = [seen EXCEPT !.spawns = @ + 1]
                   /\ pc' = "wait"
                   /\ UNCHANGED success
              ELSE /\ success' = FALSE
                   /\ hist' = [seen EXCEPT !.spawn_failures = @ + 1,
                                           !.dispatch_exc =
                                  Exception("FileNotFoundError", "launcher not found")]
                   /\ pc' = "collect"
                   /\ UNCHANGED proc
    /\ UNCHANGED <<side_vars, db_sessions, db_responses, db_evaluations, entry, num_processes,
                   input_file, output_file, config, exc, mpi_result, raised,
                   http_response>>

\* _simulate_mpi_processing: read the input file, grade, write the output file;
\* an exception while reading or writing gives False
SimulateMpiProcessing(outcome) ==
    /\ pc = "simulate"
    /\ CASE outcome = "ok" ->
              /\ output_file' = OutputObject(SimulateResults(JsonLoadTasks(input_file.evaluation_tasks)))
              /\ success' = TRUE
         [] outcome = "read_fails" ->
              /\ success' = FALSE
              /\ UNCHANGED output_file
         [] outcome = "write_fails" ->
              /\ output_file' = MalformedOutput
              /\ success' = FALSE
    /\ hist' = [hist EXCEPT !.sims = @ + 1, !.sim_outcome = outcome]
    /\ pc' = "collect"
    /\ UNCHANGED <<side_vars, db_sessions, db_responses, db_evaluations, entry, num_processes,
                   input_file, config, strategy, proc, exc, mpi_result, raised,
                   http_response>>

\* What an external worker may leave at the output path. The worker's code is
\* not part of the coordinator: it may write the results the protocol asks
\* for, results with an id that is no uuid, the JSON value null, or no JSON.
WithResponseId(results, text) ==
    [i \in 1..Len(results) |-> IF i = 1 THEN [results[i] EXCEPT !.response_id = text]
                                        ELSE results[i]]
WithSessionId(results, text) ==
    [i \in 1..Len(results) |-> IF i = Len(results)
                               THEN [results[i] EXCEPT !.session_id = text]
                               ELSE results[i]]
UnknownSession == Cardinality(SessionIds) + 1

WorkerOutputKinds == {"malformed", "null", "honest", "bad_response_id",
                      "bad_session_id", "unknown_session"}

WorkerOutput(kind, tasks) ==
    LET honest == SimulateResults(tasks)
    IN  CASE kind = "malformed" -> MalformedOutput
          [] kind = "null" -> NullOutput
          [] kind = "honest" -> OutputObject(honest)
          [] kind = "bad_response_id" -> OutputObject(WithResponseId(honest, BadText))
          [] kind = "bad_session_id" -> OutputObject(WithSessionId(honest, BadText))
          [] kind = "unknown_session" ->
                 OutputObject(WithSessionId(honest, UuidStr(UnknownSession)))

\* the running worker writes its output file
WorkerWrite(kind) ==
    /\ pc = "wait"
    /\ proc = "running"
    /\ output_file = NoOutput
    /\ output_file' = WorkerOutput(kind, JsonLoadTasks(input_file.evaluation_tasks))
    /\ hist' = [hist EXCEPT !.worker_wrote = TRUE]
    /\ UNCHANGED <<side_vars, db_sessions, db_responses, db_evaluations, pc, entry,
                   num_processes, input_file, config, strategy, proc, success, exc,
                   mpi_result, raised, http_response>>

ReturnCodeOkAlways(code) == TRUE

\* lines 204-215: communicate() returns; True exactly for return code 0
ReturnCodeOk(code) == code = 0

WorkerExit(code) ==
    /\ pc = "wait"
    /\ proc = "running"
    /\ proc' = IF code = 0 THEN "exit0" ELSE "exit1"
    /\ success' = ReturnCodeOk(code)
    /\ pc' = "collect"
    /\ UNCHANGED <<side_vars, db_sessions, db_responses, db_evaluations, entry, num_processes,
                   input_file, output_file, config, strategy, exc, mpi_result,
                   raised, http_response, hist>>

\* lines 217-220: the wait times out: process.kill(), return False
TimeoutReturnTrue == TRUE

TimeoutReturn == FALSE

WaitTimeout ==
    /\ pc = "wait"
    /\ proc = "running"
    /\ proc' = "killed"
    /\ success' = TimeoutReturn
    /\ hist' = [hist EXCEPT !.timed_out = TRUE]
    /\ pc' = "collect"
    /\ UNCHANGED <<side_vars, db_sessions, db_responses, db_evaluations, entry, num_processes,
                   input_file, output_file, config, strategy, exc, mpi_result,
                   raised, http_response>>

\* -------------- evaluate_responses_parallel, after _execute_mpi_job
CompletedResult(cfg, data) ==
    [status |-> "completed", output_data |-> data, error_message |-> "None",
     config |-> cfg]
FailedResult(cfg) ==
    [status |-> "failed", output_data |-> NoData,
     error_message |-> "MPI job execution failed", config |-> cfg]
ErrorResult(n, text) ==
    [status |-> "error", output_data |-> NoData, error_message |-> text,
     config |-> [built |-> TRUE, num_processes |-> n, input_file |-> "",
                 output_file |-> ""]]

LoadOutputAfterDelete(file) == NoData

\* json.load of the output file, as MPIJobResult.output_data
LoadOutput(file) == IF file.kind = "null" THEN NoData ELSE file

\* _cleanup_temp_files: unlink each file that exists; a failure is only logged
Unlink(file, absent, fails) == IF fails THEN file ELSE absent

\* the stages lines 76-102 begin: the output is read (when the job succeeded
\* and the file exists), then _cleanup_temp_files runs
CollectStages(read) ==
    IF read THEN <<"read_output", "delete_files">> ELSE <<"delete_files">>

\* lines 73-104: build the result, delete both files, return
CoordCollect(in_fails, out_fails) ==
    /\ pc = "collect"
    /\ LET exists == output_file.kind # "absent"
           cleaned ==
               /\ input_file' = Unlink(input_file, NoFile, in_fails)
               /\ output_file' = Unlink(output_file, NoOutput, out_fails)
           failed_unlink == \/ (in_fails /\ input_file.state # "absent")
                            \/ (out_fails /\ output_file.kind # "absent")
       IN  IF success /\ exists
           THEN IF output_file.kind = "malformed"
                THEN /\ exc' = Exception("JSONDecodeError", "output is not JSON")
                     /\ hist' = [hist EXCEPT !.output_seen = output_file.kind,
                                             !.stages = @ \o <<"read_output">>]
                     /\ pc' = "coord_except"
                     /\ in_fails = FALSE /\ out_fails = FALSE
                     /\ UNCHANGED <<input_file, output_file, mpi_result>>
                ELSE /\ mpi_result' = CompletedResult(config, LoadOutput(output_file))
                     /\ hist' = [hist EXCEPT !.output_seen = output_file.kind,
                                             !.unlink_failed = failed_unlink,
                                             !.stages = @ \o CollectStages(TRUE)]
                     /\ cleaned
                     /\ pc' = "coord_return"
                     /\ UNCHANGED exc
           ELSE /\ mpi_result' = FailedResult(config)
                /\ hist' = [hist EXCEPT !.output_seen = IF success THEN "absent" ELSE @,
                                        !.unlink_failed = failed_unlink,
                                        !.stages = @ \o CollectStages(FALSE)]
                /\ cleaned
                /\ pc' = "coord_return"
                /\ UNCHANGED exc
    /\ UNCHANGED <<side_vars, db_sessions, db_responses, db_evaluations, entry, num_processes,
                   config, strategy, proc, success, raised, http_response>>

\* lines 106-123: the handler builds MPIJobConfig(num_processes=num_processes,
\* input_file="", output_file=""), which validates num_processes again; no
\* file is deleted on this path
CoordExcept ==
    /\ pc = "coord_except"
    /\ IF ConfigValid(num_processes)
       THEN /\ mpi_result' = ErrorResult(num_processes, exc.text)
            /\ UNCHANGED raised
       ELSE /\ raised' = Exception("ValidationError", "num_processes out of range")
            /\ UNCHANGED mpi_result
    /\ pc' = "coord_return"
    /\ UNCHANGED <<side_vars, db_sessions, db_responses, db_evaluations, entry, num_processes,
                   input_file, output_file, config, strategy, proc, success, exc,
                   http_response, hist>>

\* ------------------------------- Evaluator._store_evaluation_results
\* first loop: UPDATE responses SET is_correct, points_earned WHERE id = ...
RECURSIVE UpdateResponses(_, _)
UpdateResponses(rows, results) ==
    IF results = <<>> THEN rows
    ELSE LET r == Head(results)
             updated == [i \in 1..Len(rows) |->
                            IF rows[i].id = ParseUuid(r.response_id)
                            THEN [rows[i] EXCEPT !.graded = TRUE,
                                                 !.is_correct = r.is_correct,
                                                 !.points_earned = r.points_earned]
                            ELSE rows[i]]
         IN  UpdateResponses(updated, Tail(results))

\* second loop: session_scores, a dict keyed by session id in first-seen order
RECURSIVE SessionOrder(_, _)
SessionOrder(results, seen) ==
    IF results = <<>> THEN <<>>
    ELSE LET sid == ParseUuid(Head(results).session_id)
         IN  IF sid \in seen THEN SessionOrder(Tail(results), seen)
             ELSE <<sid>> \o SessionOrder(Tail(results), seen \cup {sid})

RECURSIVE TotalPoints(_, _)
TotalPoints(results, sid) ==
    IF results = <<>> THEN 0
    ELSE (IF ParseUuid(Head(results).session_id) = sid THEN Head(results).points_earned ELSE 0)
         + TotalPoints(Tail(results), sid)

RECURSIVE CorrectAnswersCountAll(_, _)
CorrectAnswersCountAll(results, sid) ==
    IF results = <<>> THEN 0
    ELSE (IF ParseUuid(Head(results).session_id) = sid THEN 1 ELSE 0)
         + CorrectAnswersCountAll(Tail(results), sid)

RECURSIVE CorrectAnswers(_, _)
CorrectAnswers(results, sid) ==
    IF results = <<>> THEN 0
    ELSE (IF ParseUuid(Head(results).session_id) = sid /\ Head(results).is_correct
          THEN 1 ELSE 0)
         + CorrectAnswers(Tail(results), sid)

\* (total_points / exam.total_points) * 100 if exam.total_points > 0 else 0,
\* kept as an exact fraction
ScorePercentage(total_points, exam_total_points) ==
    IF exam_total_points > 0
    THEN [num |-> total_points * 100, den |-> exam_total_points]
    ELSE [num |-> 0, den |-> 1]

\* third loop: one EvaluationTable row per session of the results, with the
\* totals of the session's exam
EvaluationRowsOf(results, exam) ==
    LET order == SessionOrder(results, {})
    IN  [k \in 1..Len(order) |->
            [session_id      |-> order[k],
             total_questions |-> exam.total_questions,
             correct_answers |-> CorrectAnswers(results, order[k]),
             total_points    |-> TotalPoints(results, order[k]),
             score_percentage |-> ScorePercentage(TotalPoints(results, order[k]),
                                                  exam.total_points),
             status          |-> "completed"]]

EvaluationRows(results) == EvaluationRowsOf(results, Exam)

\* the exception _store_evaluation_results raises, NoException if it commits:
\* uuid.UUID(...) of a text that is no uuid, or scalar_one() of a session
\* that does not exist (output_data.get on None under a missing guard)
StoreException(data, sessions) ==
    LET results == data.evaluation_results
    IN  IF data.kind = "None"
        THEN Exception("AttributeError", "NoneType has no attribute get")
        ELSE IF \E i \in 1..Len(results) : ~IsUuidText(results[i].response_id)
        THEN Exception("ValueError", "badly formed hexadecimal UUID string")
        ELSE IF \E i \in 1..Len(results) : ~IsUuidText(results[i].session_id)
        THEN Exception("ValueError", "badly formed hexadecimal UUID string")
        ELSE IF \E i \in 1..Len(results) :
                   ParseUuid(results[i].session_id) \notin DOMAIN sessions
        THEN Exception("NoResultFound", "No row was found when one was required")
        ELSE NoException

\* the records of the first loop whose UPDATE was executed before
\* uuid.UUID(result["response_id"]) raised (all of them when none raises)
RECURSIVE UpdatedBeforeBadId(_)
UpdatedBeforeBadId(results) ==
    IF results = <<>> THEN <<>>
    ELSE IF ~IsUuidText(Head(results).response_id) THEN <<>>
    ELSE <<Head(results)>> \o UpdatedBeforeBadId(Tail(results))

\* the sessions of the third loop whose row was added before scalar_one()
\* raised on a session that does not exist
RECURSIVE FoundBeforeMissing(_, _)
FoundBeforeMissing(order, sessions) ==
    IF order = <<>> THEN <<>>
    ELSE IF Head(order) \notin DOMAIN sessions THEN <<>>
    ELSE <<Head(order)>> \o FoundBeforeMissing(Tail(order), sessions)

\* the response rows as the open transaction sees them when
\* _store_evaluation_results commits or raises
PendingResponses(rows, data) ==
    IF data.kind = "None" THEN rows
    ELSE UpdateResponses(rows, UpdatedBeforeBadId(data.evaluation_results))

PendingEvaluationsUpsert(rows, data, sessions) ==
    IF data.kind = "None" THEN rows
    ELSE SelectSeq(rows, LAMBDA r : r.session_id \notin
                       {ParseUuid(data.evaluation_results[i].session_id) :
                           i \in 1..Len(data.evaluation_results)})
         \o EvaluationRows(data.evaluation_results)

\* the evaluation rows as the open transaction sees them: the third loop is
\* only reached when every id of the first two loops parsed
PendingEvaluations(rows, data, sessions) ==
    LET results == data.evaluation_results
    IN  IF \/ data.kind = "None"
           \/ \E i \in 1..Len(results) : ~IsUuidText(results[i].response_id)
           \/ \E i \in 1..Len(results) : ~IsUuidText(results[i].session_id)
        THEN rows
        ELSE rows \o SubSeq(EvaluationRows(results), 1,
                            Len(FoundBeforeMissing(SessionOrder(results, {}), sessions)))

PersistedAutocommit(e, pending, before) == pending

\* line 556: the one commit of the transaction; when an exception leaves the
\* function first, the session is rolled back and closed without a commit
Persisted(e, pending, before) == IF e.type = "None" THEN pending ELSE before

\* if mpi_result.status == "completed" and mpi_result.output_data:
ShouldStoreAlways(result) == TRUE

ShouldStore(result) == result.status = "completed" /\ result.output_data.kind = "object"

\* lines 490-499: after the coordinator returned (or raised): store when the
\* guard holds, then return the result; a failing store leaves the
\* transaction uncommitted (get_db_session rolls it back) and its exception
\* leaves evaluate_exam
EvaluateExamReturn ==
    /\ pc = "coord_return"
    /\ pc' = "done"
    /\ IF raised.type # "None"
       THEN /\ http_response' = Respond(entry, raised, mpi_result)
            /\ UNCHANGED <<db_responses, db_evaluations, raised, hist>>
       ELSE IF ShouldStore(mpi_result)
       THEN LET data == mpi_result.output_data
                e == StoreException(data, db_sessions)
            IN  /\ http_response' = Respond(entry, e, mpi_result)
                /\ db_responses' =
                      Persisted(e, PendingResponses(db_responses, data), db_responses)
                /\ db_evaluations' =
                      Persisted(e, PendingEvaluations(db_evaluations, data, db_sessions),
                                db_evaluations)
                /\ raised' = e
                /\ hist' = [hist EXCEPT
                      !.store_called = TRUE, !.store_exc = e,
                      !.stages = @ \o <<"aggregate">>,
                      !.completed_runs = IF e.type = "None" THEN @ + 1 ELSE @,
                      !.graded_once =
                          IF e.type = "None" /\ hist.completed_runs = 0
                          THEN PendingResponses(db_responses, data) ELSE @]
       ELSE /\ http_response' = Respond(entry, raised, mpi_result)
            /\ UNCHANGED <<db_responses, db_evaluations, raised, hist>>
    /\ UNCHANGED <<side_vars, db_sessions, entry, num_processes, input_file, output_file, config,
                   strategy, proc, success, exc, mpi_result>>

\* ------------------------------------------------------------ specification
Next ==
    \/ \E c \in SubmissionChoices :
          SubmitResponse(c.session_id, c.question_id, c.answer)
    \/ \E s \in SessionIds : EndExamSession(s)
    \/ \E n \in ProcChoices : HttpEvaluateExam(n)
    \/ \E n \in ProcChoices : ServiceEvaluateExam(n)
    \/ EvaluateExamFetch
    \/ \E o \in {"ok", "open_fails", "dump_fails"} : CoordWriteInput(o)
    \/ CoordMakeConfig
    \/ \E u \in BOOLEAN, x \in BOOLEAN, k \in BOOLEAN : ExecuteMpiJob(u, x, k)
    \/ \E o \in {"ok", "read_fails", "write_fails"} : SimulateMpiProcessing(o)
    \/ \E k \in WorkerOutputKinds : WorkerWrite(k)
    \/ \E code \in {0, 1} : WorkerExit(code)
    \/ WaitTimeout
    \/ \E fi \in BOOLEAN, fo \in BOOLEAN : CoordCollect(fi, fo)
    \/ CoordExcept
    \/ EvaluateExamReturn

Spec == Init /\ [][Next]_vars

\* ------------------------------------------ evaluate_exam, run repeatedly
\* a further evaluate_exam call for the same exam after the last one ended:
\* a new job with files of its own, on the database as the last call left it
RunAgain ==
    /\ pc = "done"
    /\ hist.reruns < MaxRuns - 1
    /\ pc' = "evaluate"
    /\ input_file' = NoFile
    /\ output_file' = NoOutput
    /\ config' = NoConfig
    /\ strategy' = "None"
    /\ proc' = "none"
    /\ success' = FALSE
    /\ exc' = NoException
    /\ mpi_result' = NoResult
    /\ raised' = NoException
    /\ http_response' = NoResponse
    /\ hist' = [HistInit EXCEPT !.reruns = hist.reruns + 1,
                                !.completed_runs = hist.completed_runs,
                                !.graded_once = hist.graded_once]
    /\ UNCHANGED <<side_vars, db_sessions, db_responses, db_evaluations, entry,
                   num_processes>>

\* submissions, then evaluations by the in-process simulation, one call after
\* the other, with the responses and the sessions left as they are in between
NextRuns ==
    \/ \E c \in SubmissionChoices :
          SubmitResponse(c.session_id, c.question_id, c.answer)
    \/ \E s \in SessionIds : EndExamSession(s)
    \/ \E n \in {MinProcesses, MaxProcesses} : ServiceEvaluateExam(n)
    \/ EvaluateExamFetch
    \/ \E o \in {"ok"} : CoordWriteInput(o)
    \/ CoordMakeConfig
    \/ \E x \in {FALSE} : ExecuteMpiJob(x, x, x)
    \/ \E o \in {"ok", "read_fails"} : SimulateMpiProcessing(o)
    \/ \E f \in {FALSE} : CoordCollect(f, f)
    \/ EvaluateExamReturn
    \/ RunAgain

SpecRuns == Init /\ [][NextRuns]_vars

\* the steps evaluate_responses_parallel takes on the event loop: nothing but
\* the await of the worker (and the simulation's sleep) suspends them
CoordinatorStep ==
    \/ \E o \in {"ok", "open_fails", "dump_fails"} : CoordWriteInput(o)
    \/ CoordMakeConfig
    \/ \E u \in BOOLEAN, x \in BOOLEAN, k \in BOOLEAN : ExecuteMpiJob(u, x, k)
    \/ \E o \in {"ok", "read_fails", "write_fails"} : SimulateMpiProcessing(o)
    \/ \E fi \in BOOLEAN, fo \in BOOLEAN : CoordCollect(fi, fo)
    \/ CoordExcept

\* the event loop keeps running the coordinator, and the timer of
\* asyncio.wait_for fires when the worker has not exited; the worker itself
\* is under no obligation to write or to exit
SpecLive == Spec /\ WF_vars(CoordinatorStep) /\ WF_vars(WaitTimeout)

\* --------------------------- _prepare_input_data on drawn inputs
\* responses carry fresh, distinct ids; a question id names one question row
SeqsUpTo(S, n) == UNION {[1..k -> S] : k \in 0..n}

\* an answer that holds a quote, a backslash before an n, and a line break
SubmittedQuoted == <<"\"", "\\", "n", "\n">>

BuildSubmissionChoices == SubmissionChoices \cup {Submission(1, 1, SubmittedQuoted)}

ResponseLists ==
    {[i \in 1..Len(f) |-> [id |-> i, session_id |-> f[i].session_id,
                           question_id |-> f[i].question_id, answer |-> f[i].answer]] :
        f \in SeqsUpTo(BuildSubmissionChoices, MaxBuildResponses)}

QuestionPool == {Question1, Question2, Question3}
QuestionLists == SeqsUpTo(QuestionPool, MaxQuestions)

InitBuild ==
    /\ MainInit
    /\ AggUnused
    /\ GradeUnused
    /\ JobsInit
    /\ CommandUnused
    /\ SessionsUnused
    /\ b_pc = "ready"
    /\ b_responses \in ResponseLists
    /\ b_questions \in QuestionLists
    /\ b_data = NoInputData
    /\ b_file = NoFile
    /\ b_read = <<>>
    /\ b_results = <<>>

PrepareInput ==
    /\ b_pc = "ready"
    /\ b_data' = PrepareInputData(b_responses, b_questions)
    /\ b_pc' = "built"
    /\ UNCHANGED <<main_vars, cmd_vars, ses_vars, agg_vars, grade_vars, jobs_vars, b_responses, b_questions,
                   b_file, b_read, b_results>>

\* evaluate_responses_parallel, lines 59-60: the input file is written
WriteInput ==
    /\ b_pc = "built"
    /\ b_file' = InputFile(b_data)
    /\ b_pc' = "written"
    /\ UNCHANGED <<main_vars, cmd_vars, ses_vars, agg_vars, grade_vars, jobs_vars, b_responses, b_questions,
                   b_data, b_read, b_results>>

\* _simulate_mpi_processing: the tasks are read back and each is graded
Simulate ==
    /\ b_pc = "written"
    /\ b_read' = JsonLoadTasks(b_file.evaluation_tasks)
    /\ b_results' = SimulateResults(JsonLoadTasks(b_file.evaluation_tasks))
    /\ b_pc' = "simulated"
    /\ UNCHANGED <<main_vars, cmd_vars, ses_vars, agg_vars, grade_vars, jobs_vars, b_responses, b_questions,
                   b_data, b_file>>

NextBuild ==
    \/ PrepareInput
    \/ WriteInput
    \/ Simulate

SpecBuild == InitBuild /\ [][NextBuild]_vars

\* ------------------------- the command of _execute_mpi_job on drawn inputs
\* a command line is a sequence of words and blanks; an argument is a
\* sequence of such tokens (a path may hold blanks)
Arg(word) == <<word>>

\* self.mpi_processor_command.split(): the words, each an argument
SplitCommand(command) ==
    LET words == SelectSeq(command, LAMBDA t : t \notin WhiteSpace)
    IN  [i \in 1..Len(words) |-> Arg(words[i])]

\* line 28: "python" in self.mpi_processor_command.lower()
PythonWords == {"python", "python3", "Python"}
UsePythonSimulator(command) == \E i \in 1..Len(command) : command[i] \in PythonWords

\* line 185: "mpirun" if not platform.system() == "Windows" else "mpiexec"
Launcher(platform) == IF platform = "Windows" THEN "mpiexec" ELSE "mpirun"

MpiCommandPathsSwapped(use_python_simulator, command, platform, cfg) ==
    IF use_python_simulator
    THEN SplitCommand(command) \o
         <<Arg(cfg.output_file), Arg(cfg.input_file), Arg(ToString(cfg.num_processes))>>
    ELSE <<Arg(Launcher(platform)), Arg("--allow-run-as-root"),
           Arg("-n"), Arg(ToString(cfg.num_processes)),
           command, Arg(cfg.output_file), Arg(cfg.input_file)>>

\* lines 166-192: mpi_command of the simulator command or of the native
\* launcher; str(processor_path) is the configured command as one argument
MpiCommand(use_python_simulator, command, platform, cfg) ==
    IF use_python_simulator
    THEN SplitCommand(command) \o
         <<Arg(cfg.input_file), Arg(cfg.output_file), Arg(ToString(cfg.num_processes))>>
    ELSE <<Arg(Launcher(platform)), Arg("--allow-run-as-root"),
           Arg("-n"), Arg(ToString(cfg.num_processes)),
           command, Arg(cfg.input_file), Arg(cfg.output_file)>>

CommandChoices ==
    {<<"python", " ", "simulator.py">>,
     <<"Python", " ", " ", "-u", " ", "simulator.py">>,
     <<"/app/mpi_processor/evaluator">>}
Platforms == {"Linux", "Windows", "Darwin"}

InitCommand ==
    /\ MainInit
    /\ BuildUnused
    /\ AggUnused
    /\ GradeUnused
    /\ JobsInit
    /\ SessionsUnused
    /\ cmd_pc = "ready"
    /\ cmd_env \in [command : CommandChoices, processor_exists : BOOLEAN,
                     platform : Platforms,
                     config : {[built |-> TRUE, num_processes |-> n,
                                input_file |-> "input_job", output_file |-> "output_job"] :
                               n \in MinProcesses..MaxProcesses}]
    /\ cmd_argv = <<>>

\* _execute_mpi_job up to create_subprocess_exec(*mpi_command), or to the
\* in-process simulation when the binary does not exist
BuildCommand ==
    /\ cmd_pc = "ready"
    /\ LET use_python_simulator == UsePythonSimulator(cmd_env.command)
           st == SelectStrategy(use_python_simulator, cmd_env.processor_exists)
       IN  IF st = "inprocess"
           THEN /\ cmd_pc' = "simulated"
                /\ cmd_argv' = <<>>
           ELSE /\ cmd_pc' = "spawned"
                /\ cmd_argv' = MpiCommand(use_python_simulator, cmd_env.command,
                                          cmd_env.platform, cmd_env.config)
    /\ UNCHANGED <<main_vars, build_vars, agg_vars, grade_vars, jobs_vars, ses_vars, cmd_env>>

NextCommand == BuildCommand

SpecCommand == InitCommand /\ [][NextCommand]_vars

\* ------------------- activate_exam, enroll_applicants and start-all calls
\* one exam, created in status "draft"; Applicants are the applicant rows
Applicants == 1..MaxApplicants

\* ORDER BY of get_enrolled_applicants: the enrolled applicants as a list
RECURSIVE Ordered(_)
Ordered(S) ==
    IF S = {} THEN <<>>
    ELSE LET a == CHOOSE x \in S : \A y \in S : x <= y
         IN  <<a>> \o Ordered(S \ {a})

SessionsOf(sessions, a) == {k \in 1..Len(sessions) : sessions[k].applicant_id = a}

HasSessionNever(sessions, a) == FALSE

\* lines 339-346: the SELECT of an existing session of the applicant
HasSession(sessions, a) == SessionsOf(sessions, a) # {}

\* scalar_one_or_none() raises when the SELECT finds more than one row
SeveralFound(sessions, a) == Cardinality(SessionsOf(sessions, a)) > 1

\* lines 336-355: the sessions to create, for the applicants without one
NewSessions(sessions, enrolled) ==
    SelectSeq(Ordered(enrolled), LAMBDA a : ~HasSession(sessions, a))

SessionRow(a) == [applicant_id |-> a, status |-> "in_progress"]

InitSessions ==
    /\ MainInit
    /\ BuildUnused
    /\ AggUnused
    /\ GradeUnused
    /\ JobsInit
    /\ CommandUnused
    /\ s_status = "draft"
    /\ s_enrolled = {}
    /\ s_sessions = <<>>
    /\ s_calls = [c \in StartCallers |-> NoStartCall]

\* ExamManager.activate_exam: UPDATE exams SET status = "active", commit
ActivateExam ==
    /\ s_status' = "active"
    /\ UNCHANGED <<main_vars, build_vars, agg_vars, grade_vars, jobs_vars, cmd_vars,
                   s_enrolled, s_sessions, s_calls>>

\* EnrollmentManager.enroll_applicants: the exam must be active; a pair that
\* is enrolled already violates the unique constraint and nothing is added
EnrollApplicants(ids) ==
    /\ s_enrolled' = IF s_status = "active" /\ ids \cap s_enrolled = {}
                      THEN s_enrolled \cup ids
                      ELSE s_enrolled
    /\ UNCHANGED <<main_vars, build_vars, agg_vars, grade_vars, jobs_vars, cmd_vars,
                   s_status, s_sessions, s_calls>>

\* start_sessions_for_all_enrolled, lines 321-358: the reads and the checks
StartAllCheck(c) ==
    /\ s_calls[c].pc # "checked"
    /\ LET raise(e) == [pc |-> "returned", new_sessions |-> <<>>, returned |-> e]
           new_sessions == NewSessions(s_sessions, s_enrolled)
       IN  s_calls' = [s_calls EXCEPT ![c] =
               IF s_status # "active" THEN raise("PermissionError")
               ELSE IF s_enrolled = {} THEN raise("ValueError")
               ELSE IF \E a \in s_enrolled : SeveralFound(s_sessions, a)
               THEN raise("MultipleResultsFound")
               ELSE IF new_sessions = <<>> THEN raise("ValueError")
               ELSE [pc |-> "checked", new_sessions |-> new_sessions,
                     returned |-> "None"]]
    /\ UNCHANGED <<main_vars, build_vars, agg_vars, grade_vars, jobs_vars, cmd_vars,
                   s_status, s_enrolled, s_sessions>>

\* lines 360-370: add_all, UPDATE exams SET status = "in_progress", commit,
\* return len(new_sessions)
StartAllCommit(c) ==
    /\ s_calls[c].pc = "checked"
    /\ s_sessions' = s_sessions \o
           [k \in 1..Len(s_calls[c].new_sessions) |-> SessionRow(s_calls[c].new_sessions[k])]
    /\ s_status' = "in_progress"
    /\ s_calls' = [s_calls EXCEPT ![c].pc = "returned", ![c].returned = "ok"]
    /\ UNCHANGED <<main_vars, build_vars, agg_vars, grade_vars, jobs_vars, cmd_vars,
                   s_enrolled>>

\* calls that run one at a time: none starts while a start-all call is
\* between its checks and its commit
NoCallRunning == \A c \in StartCallers : s_calls[c].pc # "checked"

ActivateExamAlone == NoCallRunning /\ ActivateExam
EnrollApplicantsAlone(ids) == NoCallRunning /\ EnrollApplicants(ids)
StartAllCheckAlone(c) == NoCallRunning /\ StartAllCheck(c)

NextSessions ==
    \/ ActivateExamAlone
    \/ \E ids \in (SUBSET Applicants) \ {{}} : EnrollApplicantsAlone(ids)
    \/ \E c \in StartCallers : StartAllCheckAlone(c)
    \/ \E c \in StartCallers : StartAllCommit(c)

SpecSessions == InitSessions /\ [][NextSessions]_vars

\* the same calls, each on a database session of its own, interleaved freely
NextSessionsInterleaved ==
    \/ ActivateExam
    \/ \E ids \in (SUBSET Applicants) \ {{}} : EnrollApplicants(ids)
    \/ \E c \in StartCallers : StartAllCheck(c)
    \/ \E c \in StartCallers : StartAllCommit(c)

SpecSessionsInterleaved == InitSessions /\ [][NextSessionsInterleaved]_vars

\* --------------------- _store_evaluation_results on drawn inputs
\* result records of existing sessions, with every pairing of is_correct and
\* points_earned, aggregated against an exam with or without points
MaxAggResults == 3

ResultChoices ==
    {[session_id |-> UuidStr(sid), question_id |-> UuidStr(1),
      is_correct |-> g.is_correct, points_earned |-> g.points_earned] :
        sid \in SessionIds,
        g \in {[is_correct |-> TRUE, points_earned |-> 5],
               [is_correct |-> FALSE, points_earned |-> 0],
               [is_correct |-> TRUE, points_earned |-> 2],
               [is_correct |-> FALSE, points_earned |-> 1]}}

ResultLists ==
    {[i \in 1..Len(f) |-> [response_id   |-> UuidStr(i),
                           session_id    |-> f[i].session_id,
                           question_id   |-> f[i].question_id,
                           is_correct    |-> f[i].is_correct,
                           points_earned |-> f[i].points_earned]] :
        f \in SeqsUpTo(ResultChoices, MaxAggResults)}

ExamChoices ==
    {[total_questions |-> 0, total_points |-> 0],
     [total_questions |-> 2, total_points |-> 10],
     Exam}

InitAggregate ==
    /\ MainInit
    /\ BuildUnused
    /\ GradeUnused
    /\ JobsInit
    /\ CommandUnused
    /\ SessionsUnused
    /\ a_pc = "ready"
    /\ a_results \in ResultLists
    /\ a_exam \in ExamChoices
    /\ a_rows = <<>>

\* lines 517-554: session_scores and one evaluation row per session
Aggregate ==
    /\ a_pc = "ready"
    /\ a_rows' = EvaluationRowsOf(a_results, a_exam)
    /\ a_pc' = "stored"
    /\ UNCHANGED <<main_vars, cmd_vars, ses_vars, build_vars, grade_vars, jobs_vars, a_results, a_exam>>

NextAggregate == Aggregate

SpecAggregate == InitAggregate /\ [][NextAggregate]_vars

\* ------------------------------- _evaluate_answer on drawn inputs
\* answers of known words, typed in lower case, in upper case or capitalised,
\* with up to MaxPad whitespace characters on each side; the words include
\* answers of EssayMinLen - 1, EssayMinLen and EssayMinLen + 1 characters
MaxPad == 1

UpperChar(c) ==
    CASE c = "a" -> "A"
      [] c = "b" -> "B"
      [] c = "o" -> "O"
      [] c = "k" -> "K"
      [] OTHER -> c

Letters == <<"a", "b", "o", "k">>
Word(n) == [i \in 1..n |-> Letters[((i - 1) % Len(Letters)) + 1]]

ApplicantCores ==
    {<<>>, <<"b">>, <<"o", " ", "k">>, <<"o", "1", "k">>}
        \cup {Word(n) : n \in {1, 2, EssayMinLen - 1, EssayMinLen, EssayMinLen + 1}}
CorrectCores == {<<>>, Word(1), Word(2), <<"o", " ", "k">>, Word(EssayMinLen + 1)}

Caps == {"lower", "upper", "first"}
Pads == {[i \in 1..n |-> w] : n \in 0..MaxPad, w \in WhiteSpace}

Cased(core, caps) ==
    [i \in 1..Len(core) |->
        IF caps = "upper" \/ (caps = "first" /\ i = 1) THEN UpperChar(core[i]) ELSE core[i]]

Text(t) == t.left \o Cased(t.core, t.caps) \o t.right

QuestionTypes == {"multiple_choice", "true_false", "short_answer", "essay"}

InitGrade ==
    /\ MainInit
    /\ BuildUnused
    /\ AggUnused
    /\ JobsInit
    /\ CommandUnused
    /\ SessionsUnused
    /\ g_pc = "ready"
    /\ g_applicant \in {Typed(c, k, l, r) : c \in ApplicantCores, k \in Caps,
                                             l \in Pads, r \in Pads}
    /\ g_correct \in {Typed(c, k, p, p) : c \in CorrectCores, k \in Caps, p \in Pads}
    /\ g_type \in QuestionTypes
    /\ g_verdict = FALSE
    /\ g_plain_verdict = FALSE

\* _evaluate_answer on the answers as typed, and on their bare words
Grade ==
    /\ g_pc = "ready"
    /\ g_verdict' = EvaluateAnswer(Text(g_applicant), Text(g_correct), g_type)
    /\ g_plain_verdict' = EvaluateAnswer(g_applicant.core, g_correct.core, g_type)
    /\ g_pc' = "graded"
    /\ UNCHANGED <<main_vars, cmd_vars, ses_vars, build_vars, agg_vars, jobs_vars, g_applicant, g_correct,
                   g_type>>

NextGrade == Grade

SpecGrade == InitGrade /\ [][NextGrade]_vars

\* ------------- concurrent calls of evaluate_responses_parallel
\* Each caller runs one call; the calls interleave at every step. A file
\* records who wrote it, and a job records in "foreign" each time it read,
\* overwrote or deleted a file that another job wrote.
Uuid4Fixed(used) == {1}

\* line 47: job_id = uuid.uuid4(), an id no earlier call has got
Uuid4(used) == JobIds \ used

Touch(file, c, what) == IF file.owner \notin {0, c} THEN {what} ELSE {}

JobStart(c) ==
    /\ j_jobs[c].pc = "idle"
    /\ \E id \in Uuid4(j_used) :
          /\ j_jobs' = [j_jobs EXCEPT ![c].pc = "started", ![c].job_id = id]
          /\ j_used' = j_used \cup {id}
    /\ UNCHANGED <<main_vars, cmd_vars, ses_vars, build_vars, agg_vars, grade_vars, j_fs, j_call>>

\* lines 52-60: open(input_file, 'w') and json.dump of the job's tasks
JobWriteInput(c) ==
    /\ j_jobs[c].pc = "started"
    /\ LET p == InputPath(j_jobs[c].job_id)
       IN  /\ j_fs' = [j_fs EXCEPT ![p] = JobFile(c, c)]
           /\ j_jobs' = [j_jobs EXCEPT ![c].pc = "written",
                                       ![c].foreign = @ \cup Touch(j_fs[p], c, "overwrote")]
    /\ UNCHANGED <<main_vars, cmd_vars, ses_vars, build_vars, agg_vars, grade_vars, j_used, j_call>>

\* lines 62-71: the config names the job's two paths; the worker starts
JobExecute(c) ==
    /\ j_jobs[c].pc = "written"
    /\ j_jobs' = [j_jobs EXCEPT ![c].pc = "running"]
    /\ UNCHANGED <<main_vars, cmd_vars, ses_vars, build_vars, agg_vars, grade_vars, j_fs, j_used, j_call>>

\* the worker (a process, or _simulate_mpi_processing) reads config.input_file
\* and writes the results of the tasks it read to config.output_file
JobWorkerWrite(c) ==
    /\ j_jobs[c].pc = "running"
    /\ ~j_jobs[c].wrote
    /\ LET in == InputPath(j_jobs[c].job_id)
           out == OutputPath(j_jobs[c].job_id)
       IN  /\ j_fs[in] # NoJobFile
           /\ j_fs' = [j_fs EXCEPT ![out] = JobFile(c, j_fs[in].tasks_of)]
           /\ j_jobs' = [j_jobs EXCEPT
                            ![c].wrote = TRUE,
                            ![c].foreign = @ \cup Touch(j_fs[in], c, "read")
                                             \cup Touch(j_fs[out], c, "overwrote")]
    /\ UNCHANGED <<main_vars, cmd_vars, ses_vars, build_vars, agg_vars, grade_vars, j_used, j_call>>

\* lines 204-224: return code 0 gives True; another code or the timeout, False
JobWorkerEnd(c, how) ==
    /\ j_jobs[c].pc = "running"
    /\ j_jobs' = [j_jobs EXCEPT ![c].pc = "collect", ![c].success = (how = "exit0")]
    /\ UNCHANGED <<main_vars, cmd_vars, ses_vars, build_vars, agg_vars, grade_vars, j_fs, j_used, j_call>>

\* lines 76-104: read the job's output file, delete the job's two files
JobCollect(c) ==
    /\ j_jobs[c].pc = "collect"
    /\ LET in == InputPath(j_jobs[c].job_id)
           out == OutputPath(j_jobs[c].job_id)
           read == j_jobs[c].success /\ j_fs[out] # NoJobFile
       IN  /\ j_jobs' = [j_jobs EXCEPT
                            ![c].pc = "finished",
                            ![c].status = IF read THEN "completed" ELSE "failed",
                            ![c].data_of = IF read THEN j_fs[out].tasks_of ELSE 0,
                            ![c].foreign = @ \cup (IF read THEN Touch(j_fs[out], c, "read")
                                                           ELSE {})
                                             \cup Touch(j_fs[in], c, "deleted")
                                             \cup Touch(j_fs[out], c, "deleted")]
           /\ j_fs' = [j_fs EXCEPT ![in] = NoJobFile, ![out] = NoJobFile]
    /\ UNCHANGED <<main_vars, cmd_vars, ses_vars, build_vars, agg_vars, grade_vars, j_used, j_call>>

\* get_job_status: return None
GetJobStatusReturn(job_id) == None

CancelJobReturnTrue(job_id) == TRUE

\* cancel_job: return False
CancelJobReturn(job_id) == FALSE

GetJobStatus(job_id) ==
    /\ j_call' = [op |-> "get_job_status", job_id |-> job_id,
                  status |-> GetJobStatusReturn(job_id), cancelled |-> FALSE]
    /\ UNCHANGED <<main_vars, cmd_vars, ses_vars, build_vars, agg_vars, grade_vars, j_jobs, j_fs, j_used>>

CancelJob(job_id) ==
    /\ j_call' = [op |-> "cancel_job", job_id |-> job_id,
                  status |-> None, cancelled |-> CancelJobReturn(job_id)]
    /\ UNCHANGED <<main_vars, cmd_vars, ses_vars, build_vars, agg_vars, grade_vars, j_jobs, j_fs, j_used>>

NextJobs ==
    \/ \E c \in Callers : JobStart(c)
    \/ \E c \in Callers : JobWriteInput(c)
    \/ \E c \in Callers : JobExecute(c)
    \/ \E c \in Callers : JobWorkerWrite(c)
    \/ \E c \in Callers, how \in {"exit0", "exit1", "timeout"} : JobWorkerEnd(c, how)
    \/ \E c \in Callers : JobCollect(c)
    \/ \E id \in JobIds : GetJobStatus(id)
    \/ \E id \in JobIds : CancelJob(id)

SpecJobs == Init /\ [][NextJobs]_vars

\* ================================================================ claims
InRange(n) == 1 <= n /\ n <= 16
FilesGone == input_file.state = "absent" /\ output_file.kind = "absent"
NoWorkerStarted == proc = "none" /\ hist.spawns = 0 /\ strategy = "None"
SomeSessionCompleted == \E s \in SessionIds : db_sessions[s] = "completed"

\* C1: every call of evaluate_responses_parallel ends by returning a result
\* whose status is completed, failed or error; no exception leaves the call,
\* whatever num_processes is.
C1_NeverRaises ==
    pc = "coord_return" =>
        /\ raised.type = "None"
        /\ mpi_result.status \in {"completed", "failed", "error"}

\* C2: when evaluate_responses_parallel has returned a result (any status) and
\* no deletion failed, neither the input file nor the output file exists.
C2_FilesDeleted ==
    (pc = "coord_return" /\ mpi_result.status # "None" /\ ~hist.unlink_failed)
        => FilesGone

\* C3: when the wait for the worker times out, the process is killed and the
\* job result is failed with no output, also when the worker had already
\* written an output file.
C3_TimeoutFails ==
    hist.timed_out =>
        /\ proc = "killed"
        /\ pc \in {"collect", "coord_return", "done"}
        /\ pc \in {"coord_return", "done"} =>
              /\ mpi_result.status = "failed"
              /\ mpi_result.output_data.kind = "None"
              /\ raised.type = "None"

C3_Witness ==
    /\ hist.timed_out
    /\ hist.worker_wrote
    /\ pc = "coord_return"
    /\ mpi_result.status = "failed"
    /\ Len(db_responses) > 0

\* C4: when the worker exited with code 0 and the output file is missing or
\* is not parseable JSON, the job result has status failed.
C4_BadOutputFails ==
    (pc = "coord_return" /\ proc = "exit0" /\ hist.output_seen \in {"absent", "malformed"})
        => mpi_result.status = "failed"

\* C5: the job result given after an exception was raised before or during
\* the spawn of the worker (the input file cannot be written, the launcher
\* cannot be started) has status error, and its error_message is the text of
\* that exception.
C5_DispatchError ==
    (pc = "coord_return" /\ hist.dispatch_exc.type # "None" /\ mpi_result.status # "None")
        => /\ mpi_result.status = "error"
           /\ mpi_result.error_message = hist.dispatch_exc.text

\* C6: _store_evaluation_results is entered only for a result that is
\* completed and has an output; no step that ends with a failed or error
\* result changes a response row or adds an evaluation record.
C6_StoreOnlyCompleted ==
    [][ /\ hist'.store_called =>
              (mpi_result'.status = "completed" /\ mpi_result'.output_data.kind = "object")
        /\ mpi_result'.status \in {"failed", "error"} =>
              (db_responses' = db_responses /\ db_evaluations' = db_evaluations) ]_vars

C6_Witness ==
    /\ pc = "done"
    /\ mpi_result.status \in {"failed", "error"}
    /\ hist.worker_wrote
    /\ Len(db_responses) > 0
    /\ \A i \in 1..Len(db_responses) : ~db_responses[i].graded
    /\ db_evaluations = <<>>

\* C7: once the coordinator has returned a result, the caller of evaluate
\* receives that very result, also when storing the results fails.
C7_ResultReturned ==
    (pc = "done" /\ mpi_result.status # "None") => http_response.body = mpi_result

\* C8: evaluate_exam on an exam without a completed session raises a
\* validation error; no input or output file exists and no worker was started.
C8_NoSessionsRejected ==
    (pc \notin {"idle", "evaluate"} /\ http_response.code # "422" /\ ~SomeSessionCompleted)
        => /\ pc = "done"
           /\ raised.type = "ValueError"
           /\ http_response.code \in {"400", "raised"}
           /\ mpi_result.status = "None"
           /\ FilesGone
           /\ NoWorkerStarted

C8_Witness ==
    /\ pc = "done"
    /\ ~SomeSessionCompleted
    /\ Len(db_responses) > 0
    /\ InRange(num_processes)
    /\ http_response.code = "400"

Matched(responses, questions) ==
    {i \in 1..Len(responses) :
        \E j \in 1..Len(questions) : questions[j].id = responses[i].question_id}

TaskOf(task, r, q) ==
    /\ task.response_id = UuidStr(r.id)
    /\ task.session_id = UuidStr(r.session_id)
    /\ task.question_id = UuidStr(r.question_id)
    /\ task.applicant_answer = r.answer
    /\ task.correct_answer = q.correct_answer
    /\ task.question_type = q.question_type
    /\ task.points = q.points
    /\ task.options = (IF q.options.is_none THEN <<>> ELSE q.options.items)

C10_OneTaskPerMatch ==
    b_pc = "built" =>
        LET tasks == b_data.evaluation_tasks
            m == Matched(b_responses, b_questions)
        IN  /\ Len(tasks) = Cardinality(m)
            /\ b_data.job_metadata.total_tasks = Cardinality(m)
            /\ \A i \in m :
                  Cardinality({k \in 1..Len(tasks) :
                                  tasks[k].response_id = UuidStr(b_responses[i].id)}) = 1
            /\ \A k \in 1..Len(tasks) :
                  \E i \in m, j \in 1..Len(b_questions) :
                      /\ b_questions[j].id = b_responses[i].question_id
                      /\ TaskOf(tasks[k], b_responses[i], b_questions[j])

C10_Witness ==
    /\ b_pc = "built"
    /\ Len(b_responses) = 3
    /\ Cardinality(Matched(b_responses, b_questions)) = 2
    /\ Len(b_data.evaluation_tasks) = 2

RECURSIVE SumEarned(_)
SumEarned(results) ==
    IF results = <<>> THEN 0 ELSE Head(results).points_earned + SumEarned(Tail(results))

RECURSIVE SumTaskPoints(_)
SumTaskPoints(tasks) ==
    IF tasks = <<>> THEN 0 ELSE Head(tasks).points + SumTaskPoints(Tail(tasks))

JobReturned == pc \in {"coord_return", "done"}
JobCompleted ==
    JobReturned /\ mpi_result.status = "completed" /\ mpi_result.output_data.kind = "object"
ReturnedResults == mpi_result.output_data.evaluation_results
TaskResponseIds == {hist.tasks[i].response_id : i \in 1..Len(hist.tasks)}
StoreCommitted == pc = "done" /\ hist.store_called /\ hist.store_exc.type = "None"

\* C11: in every completed job the points_earned of the result records sum to
\* at most the points of the tasks written to the input file, and a record
\* that is not correct has points_earned 0.
C11_PointsBounded ==
    JobCompleted =>
        /\ SumEarned(ReturnedResults) <= SumTaskPoints(hist.tasks)
        /\ \A i \in 1..Len(ReturnedResults) :
              ~ReturnedResults[i].is_correct => ReturnedResults[i].points_earned = 0

C11_Witness ==
    /\ JobCompleted
    /\ \E i \in 1..Len(ReturnedResults) : ReturnedResults[i].is_correct
    /\ \E i \in 1..Len(ReturnedResults) : ~ReturnedResults[i].is_correct
    /\ SumEarned(ReturnedResults) > 0
    /\ SumEarned(ReturnedResults) < SumTaskPoints(hist.tasks)

SessionsIn(results) == {ParseUuid(results[i].session_id) : i \in 1..Len(results)}
EntriesOf(results, sid) ==
    {i \in 1..Len(results) : results[i].session_id = UuidStr(sid)}

RECURSIVE SumEarnedAt(_, _)
SumEarnedAt(results, indices) ==
    IF indices = {} THEN 0
    ELSE LET i == CHOOSE x \in indices : TRUE
         IN  results[i].points_earned + SumEarnedAt(results, indices \ {i})

\* C13: the aggregation adds one evaluation row for each session id of the
\* results; its total_points is the sum of points_earned of the session's
\* entries, its correct_answers the number of these entries that are correct,
\* its score_percentage is total_points / exam.total_points * 100, and 0 for
\* an exam whose total_points is 0.
C13_SessionSummaries ==
    a_pc = "stored" =>
        /\ Len(a_rows) = Cardinality(SessionsIn(a_results))
        /\ \A sid \in SessionsIn(a_results) :
              /\ Cardinality({k \in 1..Len(a_rows) : a_rows[k].session_id = sid}) = 1
              /\ \A k \in 1..Len(a_rows) :
                    a_rows[k].session_id = sid =>
                        LET entries == EntriesOf(a_results, sid)
                            row == a_rows[k]
                        IN  /\ row.total_points = SumEarnedAt(a_results, entries)
                            /\ row.correct_answers =
                                  Cardinality({i \in entries : a_results[i].is_correct})
                            /\ IF a_exam.total_points = 0
                               THEN row.score_percentage.num = 0
                               ELSE row.score_percentage.num * a_exam.total_points
                                      = row.total_points * 100 * row.score_percentage.den

C13_Witness ==
    /\ a_pc = "stored"
    /\ a_exam.total_points = 10
    /\ Len(a_results) = 3
    /\ Len(a_rows) = 2
    /\ \E k \in 1..2 : /\ a_rows[k].total_points = 5
                        /\ a_rows[k].correct_answers = 1
                        /\ a_rows[k].score_percentage = [num |-> 500, den |-> 10]
                        /\ Cardinality(EntriesOf(a_results, a_rows[k].session_id)) = 2

\* C14: for multiple_choice, true_false and short_answer, _evaluate_answer is
\* true exactly when the two answers have the same words, however their
\* letters are cased and whatever whitespace surrounds them; for every type
\* the verdict for the answers as typed is the verdict for their bare
\* lower-case words.
C14_CaseAndSpaceBlind ==
    g_pc = "graded" =>
        /\ (g_type # "essay") => (g_verdict = (g_applicant.core = g_correct.core))
        /\ g_verdict = g_plain_verdict

C14_Witness ==
    /\ g_pc = "graded"
    /\ g_type = "short_answer"
    /\ g_verdict
    /\ g_applicant.core = <<"o", " ", "k">>
    /\ g_applicant.caps = "upper"
    /\ g_applicant.left # <<>>
    /\ g_applicant.right # <<>>
    /\ g_applicant.left # g_applicant.right
    /\ g_correct.caps = "first"
    /\ g_correct.left # <<>>
    /\ Text(g_applicant) # Text(g_correct)

\* C15: for an essay, _evaluate_answer is true exactly when the applicant
\* answer without its surrounding whitespace has more than 10 characters,
\* whatever the correct answer is; exactly 10 characters is not enough.
C15_EssayLength ==
    (g_pc = "graded" /\ g_type = "essay") =>
        (g_verdict = (Len(Text(g_applicant)) - Len(g_applicant.left)
                         - Len(g_applicant.right) > 10))

C15_Witness ==
    /\ g_pc = "graded"
    /\ g_type = "essay"
    /\ Len(g_applicant.core) = 10
    /\ Len(Text(g_applicant)) > 10
    /\ g_applicant.caps = "upper"
    /\ g_correct.core # <<>>
    /\ ~g_verdict

RunsOfWorker == hist.spawns + hist.spawn_failures + hist.sims
StageCount(name) == Cardinality({i \in 1..Len(hist.stages) : hist.stages[i] = name})

\* C16: a job chooses one execution strategy and runs it once: the simulator
\* command when the worker path names one, else the native launcher when the
\* binary exists, else the in-process simulation. A worker that was started
\* and failed or timed out is not started again and the in-process
\* simulation does not run in its place.
C16_OneStrategyOnce ==
    /\ RunsOfWorker <= 1
    /\ strategy # "None" =>
          /\ strategy = (IF hist.use_python_simulator THEN "python_simulator"
                         ELSE IF hist.processor_exists = "yes" THEN "native"
                         ELSE "inprocess")
          /\ StageCount("run_worker") = 1
          /\ (strategy = "inprocess") => (hist.spawns = 0 /\ hist.spawn_failures = 0)
          /\ (strategy # "inprocess") => (hist.sims = 0)
    /\ (JobReturned /\ strategy # "None") => RunsOfWorker = 1
    /\ (proc \in {"exit1", "killed"}) => (hist.spawns = 1 /\ hist.sims = 0)

C16_Witness ==
    /\ pc = "done"
    /\ strategy = "native"
    /\ hist.timed_out
    /\ mpi_result.status = "failed"
    /\ hist.spawns = 1
    /\ hist.sims = 0

\* C17: when the worker path names no simulator and the binary does not
\* exist, the job runs the in-process simulation and starts no process; when
\* the simulation reads the input and writes the output, the result is
\* completed with an output that holds one record per task, none for no task.
C17_FallbackCompletes ==
    (~hist.use_python_simulator /\ hist.processor_exists = "no") =>
        /\ strategy = "inprocess"
        /\ hist.spawns = 0 /\ hist.spawn_failures = 0
        /\ (JobReturned /\ hist.sim_outcome = "ok") =>
              /\ raised.type = "None"
              /\ mpi_result.status = "completed"
              /\ mpi_result.output_data.kind = "object"
              /\ Len(ReturnedResults) = Len(hist.tasks)

C17_Witness ==
    /\ JobReturned
    /\ hist.processor_exists = "no"
    /\ strategy = "inprocess"
    /\ hist.tasks = <<>>
    /\ mpi_result.status = "completed"
    /\ mpi_result.output_data.kind = "object"
    /\ ReturnedResults = <<>>

Started(c) == j_jobs[c].job_id # 0
JobStateOf(job_id) ==
    IF \E c \in Callers : j_jobs[c].job_id = job_id /\ j_jobs[c].pc = "finished"
    THEN "finished"
    ELSE IF \E c \in Callers : j_jobs[c].job_id = job_id THEN "running"
    ELSE "unknown"

\* C18: in every interleaving of concurrent jobs, two jobs never have the
\* same job id, every file lies at a path named by the id of the job that
\* wrote it, no job reads, overwrites or deletes a file another job wrote,
\* and a completed job's output is about its own tasks.
C18_JobsDoNotCollide ==
    /\ \A c \in Callers, d \in Callers :
          (c # d /\ Started(c) /\ Started(d)) => j_jobs[c].job_id # j_jobs[d].job_id
    /\ \A p \in Paths :
          j_fs[p] # NoJobFile =>
              p \in {InputPath(j_jobs[j_fs[p].owner].job_id),
                     OutputPath(j_jobs[j_fs[p].owner].job_id)}
    /\ \A c \in Callers :
          /\ j_jobs[c].foreign = {}
          /\ j_jobs[c].status = "completed" => j_jobs[c].data_of = c

C18_Witness ==
    \E c \in Callers, d \in Callers :
        /\ c # d
        /\ j_jobs[c].pc = "finished"
        /\ j_jobs[c].status = "completed"
        /\ j_jobs[d].pc = "running"
        /\ j_jobs[d].wrote
        /\ j_fs[InputPath(j_jobs[d].job_id)] = JobFile(d, d)
        /\ j_fs[OutputPath(j_jobs[d].job_id)] = JobFile(d, d)
        /\ j_fs[InputPath(j_jobs[c].job_id)] = NoJobFile

\* C19: get_job_status returns None and cancel_job returns False for every
\* job id, whether the job is unknown, running or finished, and a step of
\* either call changes no job, no file and no job id.
C19_StatusAndCancelInert ==
    [][ /\ (j_call'.op = "get_job_status") => (j_call'.status = None)
        /\ (j_call'.op = "cancel_job") => (j_call'.cancelled = FALSE)
        /\ (j_call' # j_call) =>
              (j_jobs' = j_jobs /\ j_fs' = j_fs /\ j_used' = j_used) ]_vars

C19_Witness ==
    /\ j_call.op = "cancel_job"
    /\ ~j_call.cancelled
    /\ JobStateOf(j_call.job_id) = "running"
    /\ \E c \in Callers : /\ j_jobs[c].job_id = j_call.job_id
                           /\ j_jobs[c].pc = "running"
                           /\ j_jobs[c].wrote
    /\ \E d \in Callers : j_jobs[d].pc = "finished"

StageOrder == <<"build_tasks", "write_input", "run_worker", "read_output",
                "delete_files", "aggregate">>
StageIndex(name) == CHOOSE k \in 1..Len(StageOrder) : StageOrder[k] = name
InStageOrder(stages) ==
    \A i \in 1..Len(stages), j \in 1..Len(stages) :
        i < j => StageIndex(stages[i]) < StageIndex(stages[j])

\* C20: the stages of a job begin one after another in the order build tasks,
\* write input, run worker, read output, delete files, aggregate; the step
\* that deletes the output file of a successful job puts what the file held
\* into the result, and aggregation starts in a step taken after the
\* coordinator has returned a completed result.
C20_StagesInOrder ==
    [][ /\ InStageOrder(hist'.stages)
        /\ (success /\ output_file.kind # "absent" /\ output_file'.kind = "absent") =>
              /\ mpi_result'.status = "completed"
              /\ mpi_result'.output_data.evaluation_results = output_file.evaluation_results
              /\ (output_file.kind = "object") => (mpi_result'.output_data.kind = "object")
        /\ (hist'.store_called /\ ~hist.store_called) =>
              /\ pc = "coord_return"
              /\ mpi_result.status = "completed"
              /\ mpi_result' = mpi_result ]_vars

C20_Witness ==
    /\ pc = "done"
    /\ hist.stages = StageOrder
    /\ Len(db_evaluations) > 0

\* C21: every result evaluate_responses_parallel returns is completed exactly
\* when it has output data; a completed result has no error message; a
\* failed or error result has no output data and has an error message.
C21_StatusMatchesFields ==
    (JobReturned /\ mpi_result.status # "None") =>
        /\ (mpi_result.status = "completed") <=> (mpi_result.output_data.kind # "None")
        /\ (mpi_result.status = "completed") => (mpi_result.error_message = "None")
        /\ (mpi_result.status \in {"failed", "error"}) =>
              /\ mpi_result.output_data.kind = "None"
              /\ mpi_result.error_message # "None"

\* C22: when the worker process exits with a code other than 0, the result
\* is failed and has no output data, also when the worker wrote an output
\* file before it exited.
C22_NonZeroExitFails ==
    (proc = "exit1" /\ JobReturned) =>
        /\ raised.type = "None"
        /\ mpi_result.status = "failed"
        /\ mpi_result.output_data.kind = "None"

C22_Witness ==
    /\ proc = "exit1"
    /\ pc = "coord_return"
    /\ hist.worker_wrote
    /\ hist.output_seen = "None"
    /\ Len(hist.tasks) > 0
    /\ mpi_result.status = "failed"

\* C27: after response submissions and an evaluation by the in-process
\* simulation, every stored evaluation row has a score_percentage between 0
\* and 100 and at most total_questions correct answers.
C27_SummaryWithinBounds ==
    (pc = "done" /\ strategy = "inprocess") =>
        \A k \in 1..Len(db_evaluations) :
            LET row == db_evaluations[k]
            IN  /\ 0 <= row.score_percentage.num
                /\ row.score_percentage.num <= 100 * row.score_percentage.den
                /\ row.correct_answers <= row.total_questions

\* C24: the grade updates and the evaluation rows of one job are persisted
\* in one transaction: after evaluate_exam called the store, either every
\* result's response row is graded and every session of the results has its
\* evaluation row, or no response row is graded and no evaluation row exists.
C24_OneTransaction ==
    (pc = "done" /\ hist.store_called) =>
        LET results == ReturnedResults
        IN  IF hist.store_exc.type = "None"
            THEN /\ \A i \in 1..Len(results) :
                        \E k \in 1..Len(db_responses) :
                            /\ db_responses[k].id = ParseUuid(results[i].response_id)
                            /\ db_responses[k].graded
                 /\ \A sid \in SessionsIn(results) :
                        \E k \in 1..Len(db_evaluations) : db_evaluations[k].session_id = sid
            ELSE /\ \A k \in 1..Len(db_responses) : ~db_responses[k].graded
                 /\ db_evaluations = <<>>

\* a store that raised after the UPDATE of every record was executed
C24_Witness ==
    /\ pc = "done"
    /\ hist.store_called
    /\ hist.store_exc.type # "None"
    /\ Len(ReturnedResults) = 2
    /\ Len(UpdatedBeforeBadId(ReturnedResults)) = 2
    /\ \A k \in 1..Len(db_responses) : ~db_responses[k].graded
    /\ db_evaluations = <<>>

\* a store that committed grades and evaluation rows of two sessions
C24_WitnessCommitted ==
    /\ StoreCommitted
    /\ Cardinality(SessionsIn(ReturnedResults)) = 2
    /\ Len(db_evaluations) = 2
    /\ \A k \in 1..Len(db_responses) : db_responses[k].graded

\* C23: every call of evaluate_responses_parallel eventually returns a
\* result, whatever the worker does, when the timeout timer eventually fires.
C23_CallReturnsResult ==
    (pc = "coord_write") ~> (JobReturned /\ mpi_result.status # "None")

\* the call itself always ends, by a result or by an exception
EvaluateResponsesParallelEnds == (pc = "coord_write") ~> JobReturned

\* a call with a worker count MPIJobConfig accepts always returns a result
ValidCallReturnsResult ==
    (pc = "coord_write" /\ InRange(num_processes)) ~>
        (JobReturned /\ mpi_result.status # "None")

\* C25: for every task list the in-process simulation reads back from the
\* input file as many tasks as were serialized, with the same field values,
\* and emits exactly one result per task, in task order, carrying the task's
\* response_id, session_id and question_id, with points_earned equal to the
\* task's points when is_correct is true.
C25_RoundTripAndResults ==
    (b_pc = "simulated") =>
        LET tasks == b_data.evaluation_tasks
        IN  /\ Len(b_read) = Len(tasks)
            /\ \A i \in 1..Len(tasks) : b_read[i] = tasks[i]
            /\ Len(b_results) = Len(tasks)
            /\ \A i \in 1..Len(tasks) :
                   /\ b_results[i].response_id = tasks[i].response_id
                   /\ b_results[i].session_id = tasks[i].session_id
                   /\ b_results[i].question_id = tasks[i].question_id
                   /\ b_results[i].is_correct =>
                          b_results[i].points_earned = tasks[i].points

\* three tasks went through the file, one of them with an answer whose text
\* differs from its JSON form, and one was graded correct
C25_Witness ==
    /\ b_pc = "simulated"
    /\ Len(b_results) = 3
    /\ \E i \in 1..3 :
          /\ b_data.evaluation_tasks[i].applicant_answer = SubmittedQuoted
          /\ b_file.evaluation_tasks[i].applicant_answer.text # SubmittedQuoted
    /\ \E i \in 1..3 : b_results[i].is_correct /\ b_results[i].points_earned > 0

\* C26 (as stated): the argument vector of a native worker is exactly the
\* launcher, "-n", the worker count, the worker binary, the input path and
\* the output path, in this order and with no other argument; that of a
\* simulator-style worker is the simulator command followed by the input
\* path, the output path and the worker count.
C26_ArgvAsStated ==
    (cmd_pc = "spawned") =>
        LET cfg == cmd_env.config
            n == Len(cmd_argv)
        IN  IF UsePythonSimulator(cmd_env.command)
            THEN /\ n >= 3
                 /\ SubSeq(cmd_argv, 1, n - 3) = SplitCommand(cmd_env.command)
                 /\ cmd_argv[n - 2] = Arg(cfg.input_file)
                 /\ cmd_argv[n - 1] = Arg(cfg.output_file)
                 /\ cmd_argv[n] = Arg(ToString(cfg.num_processes))
            ELSE /\ n = 6
                 /\ cmd_argv[1] \in {Arg("mpirun"), Arg("mpiexec")}
                 /\ cmd_argv[2] = Arg("-n")
                 /\ cmd_argv[3] = Arg(ToString(cfg.num_processes))
                 /\ cmd_argv[4] = cmd_env.command
                 /\ cmd_argv[5] = Arg(cfg.input_file)
                 /\ cmd_argv[6] = Arg(cfg.output_file)

\* C26 (amended): the argument vector of a native worker is exactly the
\* launcher, "--allow-run-as-root", "-n", the worker count, the worker
\* binary, the input path and the output path, in this order and with no
\* other argument; that of a simulator-style worker is the words of the
\* simulator command followed by the input path, the output path and the
\* worker count.
C26_Argv ==
    (cmd_pc = "spawned") =>
        LET cfg == cmd_env.config
            n == Len(cmd_argv)
        IN  IF UsePythonSimulator(cmd_env.command)
            THEN /\ n >= 3
                 /\ SubSeq(cmd_argv, 1, n - 3) = SplitCommand(cmd_env.command)
                 /\ cmd_argv[n - 2] = Arg(cfg.input_file)
                 /\ cmd_argv[n - 1] = Arg(cfg.output_file)
                 /\ cmd_argv[n] = Arg(ToString(cfg.num_processes))
            ELSE /\ n = 7
                 /\ cmd_argv[1] =
                        (IF cmd_env.platform = "Windows" THEN Arg("mpiexec") ELSE Arg("mpirun"))
                 /\ cmd_argv[2] = Arg("--allow-run-as-root")
                 /\ cmd_argv[3] = Arg("-n")
                 /\ cmd_argv[4] = Arg(ToString(cfg.num_processes))
                 /\ cmd_argv[5] = cmd_env.command
                 /\ cmd_argv[6] = Arg(cfg.input_file)
                 /\ cmd_argv[7] = Arg(cfg.output_file)

\* a native worker started for 16 processes on Windows
C26_Witness ==
    /\ cmd_pc = "spawned"
    /\ ~UsePythonSimulator(cmd_env.command)
    /\ cmd_env.platform = "Windows"
    /\ cmd_env.config.num_processes = MaxProcesses
    /\ Len(cmd_argv) = 7

\* a simulator command of three words started as a process
C26_WitnessSimulator ==
    /\ cmd_pc = "spawned"
    /\ UsePythonSimulator(cmd_env.command)
    /\ Len(cmd_argv) = 6
    /\ cmd_argv[1] = Arg("Python")

\* C28: when activate_exam, enroll_applicants and start-all calls run one at
\* a time, each applicant has at most one session for the exam, and a
\* start-all call creates no session for an applicant who has one.
C28_OneSessionSequential ==
    /\ \A a \in Applicants : Cardinality(SessionsOf(s_sessions, a)) <= 1
    /\ \A c \in StartCallers :
          s_calls[c].pc = "checked" =>
              \A k \in 1..Len(s_calls[c].new_sessions) :
                  SessionsOf(s_sessions, s_calls[c].new_sessions[k]) = {}

\* a second start-all, after the exam was activated again and a second
\* applicant enrolled, created one session and skipped the first applicant
C28_Witness ==
    /\ Len(s_sessions) = 2
    /\ s_sessions[1].applicant_id # s_sessions[2].applicant_id
    /\ s_status = "in_progress"
    /\ \E c \in StartCallers :
          /\ s_calls[c].returned = "ok"
          /\ Len(s_calls[c].new_sessions) = 1
          /\ s_calls[c].new_sessions[1] = s_sessions[2].applicant_id

\* C29: when two start-all calls for the active exam interleave, each
\* applicant still ends with at most one session for the exam.
C29_OneSessionInterleaved ==
    (\A c \in StartCallers : s_calls[c].pc # "checked") =>
        \A a \in s_enrolled :
            \A k1, k2 \in SessionsOf(s_sessions, a) : k1 = k2

EvaluationsOf(sid) == {k \in 1..Len(db_evaluations) : db_evaluations[k].session_id = sid}

\* C30: every evaluate_exam run that completes adds exactly one evaluation
\* row for each session of its results and leaves the rows of earlier runs
\* as they are; after k completed runs over unchanged responses a graded
\* session has k evaluation rows, and the grades of the responses are those
\* of the first run.
C30_RunsAppend ==
    /\ [](\A sid \in SessionIds :
            Cardinality(EvaluationsOf(sid)) \in {0, hist.completed_runs})
    /\ [](hist.completed_runs >= 1 => db_responses = hist.graded_once)
    /\ [][/\ Len(db_evaluations') >= Len(db_evaluations)
          /\ SubSeq(db_evaluations', 1, Len(db_evaluations)) = db_evaluations
          /\ IF hist'.completed_runs = hist.completed_runs + 1
             THEN LET new == SubSeq(db_evaluations', Len(db_evaluations) + 1,
                                    Len(db_evaluations'))
                      sids == SessionsIn(ReturnedResults)
                  IN  /\ Len(new) = Cardinality(sids)
                      /\ {new[k].session_id : k \in 1..Len(new)} = sids
             ELSE db_evaluations' = db_evaluations]_vars

\* two completed runs over the responses of two sessions: two evaluation
\* rows per session, in the order the runs added them
C30_Witness ==
    /\ pc = "done"
    /\ hist.completed_runs = 2
    /\ Len(db_responses) = 2
    /\ Len(db_evaluations) = 4
    /\ \A sid \in SessionIds : Cardinality(EvaluationsOf(sid)) = 2
    /\ \E k \in 1..Len(db_responses) : db_responses[k].is_correct

====
